---------------------------- MODULE Spec2Model ----------------------------
(***************************************************************************)
(* A model of pylogutil: the regular-expression line filters               *)
(* (_linefiltering/_regexfilterbase.py), the timestamp / IPv4 / IPv6       *)
(* filters (_linefilters.py), the colour derivation                        *)
(* (_linefiltering/_colorgen.py) and the command line tool (util.py).      *)
(*                                                                         *)
(* A line of text is a sequence of characters, each character a one        *)
(* character string.  A terminal escape sequence written by click.style    *)
(* is one element of the sequence.  Offsets into a line are 0-based, as in *)
(* Python: the character at offset i of s is s[i+1].                       *)
(***************************************************************************)
EXTENDS Integers, Sequences, FiniteSets, TLC

VARIABLES
    filt,       \* the filter object under test: its kind and its sub-filters
    cpattern,   \* LineRegexFilterBase._cpattern: "None" or "compiled"
    line,       \* the argument of the last __call__
    res,        \* what the last __call__ returned: None or the new line
    calls,      \* the replacer invocations of the last __call__, in order
    ncalls,     \* how many times filt has been called
    ncompiles,  \* how many times a call has assigned filt._cpattern
    lst,        \* the argument of the last colour derivation
    colour,     \* what the last 8-bit colour derivation returned
    rgb,        \* what the 24-bit colour derivation returned, <<>> before it
    args,       \* the command line: first, last, timestamps, ipv4, ipv6
    file,       \* the lines of FILE
    pc,         \* the position of main
    nread,      \* how many lines of FILE the iterator has handed out
    cli_filter, \* main's CompositeLineRegexFilter: its _cpattern
    first_lines,    \* main's counter of the lines taken by --first
    filtered_lines, \* main's list of the lines to print
    last_line_buff, \* main's deque(maxlen=last)
    stdout,     \* what click.echo has written, one element per call
    exit_code   \* the exit code of the process, -1 while it runs

vars == <<filt, cpattern, line, res, calls, ncalls, ncompiles, lst, colour,
          rgb, args, file, pc, nread, cli_filter, first_lines, filtered_lines,
          last_line_buff, stdout, exit_code>>

filterVars == <<filt, cpattern, line, res, calls, ncalls, ncompiles>>
colourVars == <<lst, colour, rgb>>
cliVars == <<args, file, pc, nread, cli_filter, first_lines, filtered_lines,
             last_line_buff, stdout, exit_code>>

None == "None"

-----------------------------------------------------------------------------
(***************************************************************************)
(* Python's re, for the constructs the patterns of the repository use.     *)
(* A pattern is a tree.  The matcher is the backtracking matcher of re:    *)
(* Ways(r, s, i, g) is the sequence of the ways r matches in s from offset *)
(* i, in the order in which backtracking tries them (the alternatives of | *)
(* in order, the repetitions of {} greedily); a way is the end offset e of *)
(* the match and the name g of the last named group that closed            *)
(* (Match.lastgroup).  re takes the first way.                             *)
(***************************************************************************)
Digit == {"0", "1", "2", "3", "4", "5", "6", "7", "8", "9"}
HexDigit == Digit \cup {"a", "b", "c", "d", "e", "f", "A", "B", "C", "D", "E", "F"}

In(S) == [t |-> "in", s |-> S]                  \* [...]
NotIn(S) == [t |-> "notin", s |-> S]            \* [^...]
Lit(c) == In({c})
Cat(a) == [t |-> "cat", a |-> a]                \* r1 r2 ...
Alt(a) == [t |-> "alt", a |-> a]                \* r1|r2|...
Rep(r, lo, hi) == [t |-> "rep", r |-> r, lo |-> lo, hi |-> hi]  \* r{lo,hi}
Opt(r) == Rep(r, 0, 1)                          \* r?
LookBehind(r) == [t |-> "lookbehind", r |-> r]  \* (?<=r), r one character wide
LookAhead(r) == [t |-> "lookahead", r |-> r]    \* (?=r)
Bol == [t |-> "bol"]                            \* ^
Eol == [t |-> "eol"]                            \* $
Named(name, r) == [t |-> "named", name |-> name, r |-> r]  \* (?P<name>r)
Empty == Cat(<<>>)                              \* the empty pattern
Invalid == [t |-> "invalid"]                    \* a text re.compile rejects: (

NoWay == [e |-> -1, g |-> None]

\* parts[lo] \o ... \o parts[hi]
RECURSIVE Concat(_, _, _)
Concat(parts, lo, hi) ==
    IF lo = hi THEN parts[lo]
    ELSE Concat(parts, lo, (lo + hi) \div 2) \o Concat(parts, (lo + hi) \div 2 + 1, hi)

RECURSIVE Ways(_, _, _, _), Then(_, _, _), WaysCat(_, _, _, _)

\* the ways to match r after each of the ways ws, in order
Then(ws, r, s) ==
    CASE Len(ws) = 0 -> <<>>
      [] Len(ws) = 1 -> Ways(r, s, ws[1].e, ws[1].g)
      [] OTHER -> Concat([j \in 1..Len(ws) |-> Ways(r, s, ws[j].e, ws[j].g)],
                         1, Len(ws))

\* the ways to match a[k], a[k+1], ... one after the other, after the ways ws
WaysCat(a, k, s, ws) ==
    IF k > Len(a) \/ ws = <<>> THEN ws ELSE WaysCat(a, k + 1, s, Then(ws, a[k], s))

\* the number of characters of s from offset i on that are in S, up to hi
Span(S, s, i, hi) ==
    CHOOSE n \in 0..hi :
        /\ i + n <= Len(s)
        /\ \A j \in 1..n : s[i + j] \in S
        /\ n = hi \/ i + n = Len(s) \/ s[i + n + 1] \notin S

Ways(r, s, i, g) ==
    CASE r.t = "in" ->
           IF i < Len(s) /\ s[i + 1] \in r.s THEN <<[e |-> i + 1, g |-> g]>>
           ELSE <<>>
      [] r.t = "notin" ->
           IF i < Len(s) /\ s[i + 1] \notin r.s THEN <<[e |-> i + 1, g |-> g]>>
           ELSE <<>>
      [] r.t = "bol" -> IF i = 0 THEN <<[e |-> i, g |-> g]>> ELSE <<>>
      [] r.t = "eol" ->
           IF i = Len(s) \/ (i = Len(s) - 1 /\ s[Len(s)] = "\n")
           THEN <<[e |-> i, g |-> g]>> ELSE <<>>
      [] r.t = "lookbehind" ->
           IF i > 0 /\ Ways(r.r, s, i - 1, g) = <<[e |-> i, g |-> g]>>
           THEN <<[e |-> i, g |-> g]>> ELSE <<>>
      [] r.t = "lookahead" ->
           IF Ways(r.r, s, i, g) # <<>> THEN <<[e |-> i, g |-> g]>> ELSE <<>>
      [] r.t = "cat" -> WaysCat(r.a, 1, s, <<[e |-> i, g |-> g]>>)
      [] r.t = "alt" ->
           Concat([k \in 1..Len(r.a) |-> Ways(r.a[k], s, i, g)], 1, Len(r.a))
      [] r.t = "rep" /\ r.r.t = "in" ->
           \* a repeated character class: the longest run first, then shorter
           LET n == Span(r.r.s, s, i, r.hi)
           IN  [j \in 1..(n - r.lo + 1) |-> [e |-> i + n - j + 1, g |-> g]]
      [] r.t = "rep" /\ r.r.t # "in" /\ r.hi = 0 -> <<[e |-> i, g |-> g]>>
      [] r.t = "rep" /\ r.r.t # "in" /\ r.hi > 0 /\ r.lo > 0 ->
           Then(Ways(r.r, s, i, g), Rep(r.r, r.lo - 1, r.hi - 1), s)
      [] r.t = "rep" /\ r.r.t # "in" /\ r.hi > 0 /\ r.lo = 0 ->
           Then(Ways(r.r, s, i, g), Rep(r.r, 0, r.hi - 1), s)
           \o <<[e |-> i, g |-> g]>>
      [] r.t = "named" ->
           LET closed(ws) == [j \in 1..Len(ws) |-> [e |-> ws[j].e, g |-> r.name]]
           IN  closed(Ways(r.r, s, i, g))

\* Pattern.match at offset i: the first way.  With must_advance (the scan has
\* just replaced an empty match ending at i) the match must not be empty.
Match(r, s, i, must_advance) ==
    LET first(ws) == IF ws = <<>> THEN NoWay ELSE ws[1]
    IN  first(SelectSeq(Ways(r, s, i, None), LAMBDA w : ~must_advance \/ w.e # i))

\* Pattern.search from offset i: the leftmost offset b at which the pattern
\* matches, with the match there; b = -1 when there is none.
NoMatch == [b |-> -1, e |-> -1, g |-> None]
Search(r, s, i, must_advance) ==
    LET found(b) ==
            LET at(w) == [b |-> b, e |-> w.e, g |-> w.g]
            IN  at(Match(r, s, b, must_advance /\ b = i))
        leftmost(starts) ==
            IF starts = {} THEN NoMatch
            ELSE found(CHOOSE b \in starts : \A c \in starts : b <= c)
    IN  leftmost({b \in i..Len(s) : Match(r, s, b, must_advance /\ b = i).e >= 0})

\* the matches Pattern.subn replaces, left to right
RECURSIVE Scan(_, _, _, _)
Scan(r, s, i, must_advance) ==
    LET from(m) ==
            IF m.b < 0 THEN <<>>
            ELSE <<m>> \o Scan(r, s, m.e, m.e = m.b)
    IN  from(Search(r, s, i, must_advance))

Slice(s, b, e) == SubSeq(s, b + 1, e)    \* s[b:e]

-----------------------------------------------------------------------------
(***************************************************************************)
(* The patterns of the three filters.                                      *)
(***************************************************************************)
NotAfterDigit == Alt(<<LookBehind(NotIn(Digit)), Bol>>)       \* (?:(?<=[^0-9])|^)
NotBeforeDigit == LookAhead(Alt(<<NotIn(Digit), Eol>>))       \* (?=[^0-9]|$)
NotAfterHex == Alt(<<LookBehind(NotIn(HexDigit)), Bol>>)      \* (?:(?<=[^0-9a-fA-F])|^)
NotBeforeHex == LookAhead(Alt(<<NotIn(HexDigit), Eol>>))      \* (?=[^0-9a-fA-F]|$)

\* timestamp_pattern without the assertion that no digit follows
timestamp_pattern_unbounded ==
    Cat(<<NotAfterDigit,
          Rep(Cat(<<Rep(In(Digit), 2, 2), Lit(":")>>), 2, 2),
          Rep(In(Digit), 2, 2)>>)

\* (?:[0-9]{2}:){2}[0-9]{2} between the two assertions
timestamp_pattern ==
    Cat(<<NotAfterDigit,
          Rep(Cat(<<Rep(In(Digit), 2, 2), Lit(":")>>), 2, 2),
          Rep(In(Digit), 2, 2),
          NotBeforeDigit>>)

\* 25[0-5]|2[0-4][0-9]|1[0-9]{2}|[1-9][0-9]|[0-9]
Octet ==
    Alt(<<Cat(<<Lit("2"), Lit("5"), In({"0", "1", "2", "3", "4", "5"})>>),
          Cat(<<Lit("2"), In({"0", "1", "2", "3", "4"}), In(Digit)>>),
          Cat(<<Lit("1"), Rep(In(Digit), 2, 2)>>),
          Cat(<<In(Digit \ {"0"}), In(Digit)>>),
          In(Digit)>>)

\* ipv4_pattern with every octet written as one to three digits
ipv4_pattern_naive ==
    Cat(<<NotAfterDigit,
          Rep(Cat(<<Rep(In(Digit), 1, 3), Lit(".")>>), 3, 3),
          Rep(In(Digit), 1, 3),
          NotBeforeDigit>>)

ipv4_pattern ==
    Cat(<<NotAfterDigit,
          Rep(Cat(<<Octet, Lit(".")>>), 3, 3),
          Octet,
          NotBeforeDigit>>)

H14 == Rep(In(HexDigit), 1, 4)                                \* [0-9a-fA-F]{1,4}
H04 == Rep(In(HexDigit), 0, 4)                                \* [0-9a-fA-F]{0,4}
HNZ == Cat(<<In(HexDigit \ {"0"}), Rep(In(HexDigit), 0, 3)>>) \* [1-9a-fA-F][0-9a-fA-F]{0,3}
ColonColon == Cat(<<Lit(":"), Lit(":")>>)                     \* ::
Lead(n) == Rep(Cat(<<H14, Lit(":")>>), n, n)                  \* (?:[0-9a-fA-F]{1,4}:){n,n}
\* (?:[1-9a-fA-F][0-9a-fA-F]{0,3}(?::[0-9a-fA-F]{0,4}){0,n})?
Trail(n) == Opt(Cat(<<HNZ, Rep(Cat(<<Lit(":"), H04>>), 0, n)>>))

\* ipv6_pattern with the address "::" not excluded
ipv6_pattern_with_unspecified ==
    Cat(<<NotAfterHex,
          Alt(<<Cat(<<Lead(7), H14>>),
                Cat(<<Lead(6), HNZ, ColonColon>>),
                Cat(<<Lead(5), HNZ, ColonColon, Opt(Cat(<<Lit(":"), HNZ>>))>>),
                Cat(<<Lead(4), HNZ, ColonColon, Trail(1)>>),
                Cat(<<Lead(3), HNZ, ColonColon, Trail(2)>>),
                Cat(<<Lead(2), HNZ, ColonColon, Trail(3)>>),
                Cat(<<Lead(1), HNZ, ColonColon, Trail(4)>>),
                Cat(<<HNZ, ColonColon, Trail(5)>>),
                Cat(<<ColonColon, Opt(Cat(<<HNZ, Rep(Cat(<<Lit(":"), H04>>), 0, 6)>>))>>)>>),
          NotBeforeHex>>)

ipv6_pattern ==
    Cat(<<NotAfterHex,
          Alt(<<Cat(<<Lead(7), H14>>),
                Cat(<<Lead(6), HNZ, ColonColon>>),
                Cat(<<Lead(5), HNZ, ColonColon, Opt(Cat(<<Lit(":"), HNZ>>))>>),
                Cat(<<Lead(4), HNZ, ColonColon, Trail(1)>>),
                Cat(<<Lead(3), HNZ, ColonColon, Trail(2)>>),
                Cat(<<Lead(2), HNZ, ColonColon, Trail(3)>>),
                Cat(<<Lead(1), HNZ, ColonColon, Trail(4)>>),
                Cat(<<HNZ, ColonColon, Trail(5)>>),
                Cat(<<ColonColon, HNZ, Rep(Cat(<<Lit(":"), H04>>), 0, 6)>>)>>),
          NotBeforeHex>>)

-----------------------------------------------------------------------------
(***************************************************************************)
(* str.split, int() and click.style, as the replacement functions use      *)
(* them.  A function that can raise returns a record whose exc names the   *)
(* exception, "None" when it returned normally.                            *)
(***************************************************************************)
DigitValue(c) ==
    CASE c = "0" -> 0 [] c = "1" -> 1 [] c = "2" -> 2 [] c = "3" -> 3
      [] c = "4" -> 4 [] c = "5" -> 5 [] c = "6" -> 6 [] c = "7" -> 7
      [] c = "8" -> 8 [] c = "9" -> 9
      [] c \in {"a", "A"} -> 10 [] c \in {"b", "B"} -> 11 [] c \in {"c", "C"} -> 12
      [] c \in {"d", "D"} -> 13 [] c \in {"e", "E"} -> 14 [] c \in {"f", "F"} -> 15
      [] OTHER -> 99

\* int(text, base) for a text without sign, blanks or underscores
RECURSIVE IntValue(_, _)
IntValue(text, base) ==
    IF text = <<>> THEN 0
    ELSE IntValue(SubSeq(text, 1, Len(text) - 1), base) * base + DigitValue(text[Len(text)])

int(text, base) ==
    IF text = <<>> \/ \E k \in 1..Len(text) : DigitValue(text[k]) >= base
    THEN [exc |-> "ValueError", v |-> 0]
    ELSE [exc |-> None, v |-> IntValue(text, base)]

\* the offset of the first occurrence of sep in s at or after i, -1 when none
RECURSIVE Find(_, _, _)
Find(s, sep, i) ==
    IF i + Len(sep) > Len(s) THEN -1
    ELSE IF Slice(s, i, i + Len(sep)) = sep THEN i
    ELSE Find(s, sep, i + 1)

\* s.split(sep, maxsplit); maxsplit = -1 for no limit
RECURSIVE split(_, _, _)
split(s, sep, maxsplit) ==
    LET k == Find(s, sep, 0)
    IN  IF maxsplit = 0 \/ k < 0 THEN <<s>>
        ELSE <<Slice(s, 0, k)>>
             \o split(Slice(s, k + Len(sep), Len(s)), sep,
                      IF maxsplit > 0 THEN maxsplit - 1 ELSE maxsplit)

Reset == "ESC[0m"
Bold == "ESC[1m"
Italic == "ESC[3m"
Underline == "ESC[4m"
BrightWhite == "ESC[97m"
Fg8bit(n) == "ESC[38;5;" \o ToString(n) \o "m"

-----------------------------------------------------------------------------
(***************************************************************************)
(* RgbConverter: the 8-bit colour derivation.                              *)
(***************************************************************************)
Greyscale == {0, 7, 15} \cup (231..255)

\* tuple(x for x in range(256) if x not in (0, 7, 15, *range(231, 256)))
value_table_8bit_unfiltered == [k \in 1..256 |-> k - 1]
value_table_8bit ==
    SelectSeq([k \in 1..256 |-> k - 1], LAMBDA x : x \notin Greyscale)

range8 == Len(value_table_8bit)

\* the loop of from_int_list_8bit: rgb_out = (rgb_out + i) % range8
RECURSIVE Fold8(_, _)
Fold8(rgb_out, l) ==
    IF l = <<>> THEN rgb_out
    ELSE Fold8((rgb_out + Head(l)) % range8, Tail(l))

\* tbl[i] as Python evaluates it: a negative i counts from the end
Subscript(tbl, i) ==
    IF i >= 0 /\ i < Len(tbl) THEN [exc |-> None, v |-> tbl[i + 1]]
    ELSE IF i < 0 /\ i >= -Len(tbl) THEN [exc |-> None, v |-> tbl[Len(tbl) + i + 1]]
    ELSE [exc |-> "IndexError", v |-> -1]

from_int_list_8bit(l) == Subscript(value_table_8bit, Fold8(0, l))

(***************************************************************************)
(* RgbConverter: the 24-bit colour derivation.                             *)
(***************************************************************************)
min24 == 70
max24 == 255
range24 == min24 - max24

\* a % m as Python evaluates it: the result has the sign of m
PyMod(a, m) == IF m > 0 THEN a % m ELSE 0 - ((0 - a) % (0 - m))

\* a // 3: the quotient rounded down
FloorDiv3(a) == (a - (a % 3)) \div 3

\* hash(i) of a small int i >= 0
hash(i) == i

\* the first loop, from index i on: rgb_out[i % 3] takes lst[i] and hash(i)
RECURSIVE FoldEven24(_, _, _, _)
FoldEven24(rgb_out, l, i, even_count) ==
    IF i >= even_count THEN rgb_out
    ELSE FoldEven24([rgb_out EXCEPT ![(i % 3) + 1] =
                        PyMod(@ + l[i + 1] + hash(i), range24)],
                    l, i + 1, even_count)

\* the second loop, from index i on: every channel takes amount
RECURSIVE FoldExtra24(_, _, _, _, _)
FoldExtra24(rgb_out, l, i, even_count, extra_count) ==
    IF i >= extra_count THEN rgb_out
    ELSE LET amount == PyMod(FloorDiv3(l[even_count + i + 1] + hash(even_count + i)),
                             range24)
         IN  FoldExtra24([c \in 1..3 |-> rgb_out[c] + amount], l, i + 1,
                         even_count, extra_count)

from_int_list_24bit(l) ==
    LET extra_count == Len(l) % 3
        even_count == Len(l) - extra_count
        folded(rgb_out) == [c \in 1..3 |-> rgb_out[c] + min24]
    IN  folded(FoldExtra24(FoldEven24(<<0, 0, 0>>, l, 0, even_count), l, 0,
                           even_count, extra_count))

-----------------------------------------------------------------------------
(***************************************************************************)
(* The replacement functions.  _linefilters.py holds the package's         *)
(* filters; util.py holds its own copies, which main uses, with other      *)
(* styles and another parse of the IPv6 segments.  src names the module.   *)
(***************************************************************************)
FilterNames == {"timestamp_filter", "ipv4_filter", "ipv6_filter"}

Returned(text) == [exc |-> None, text |-> text]
Raised(e) == [exc |-> e, text |-> <<>>]

\* [f(x) for x in xs], f raising
RECURSIVE MapInt(_, _, _)
MapInt(parts, base, empty_is_zero) ==
    IF parts = <<>> THEN [exc |-> None, v |-> <<>>]
    ELSE LET h == IF empty_is_zero /\ Head(parts) = <<>>
                  THEN [exc |-> None, v |-> 0]
                  ELSE int(Head(parts), base)
             r == MapInt(Tail(parts), base, empty_is_zero)
         IN  IF h.exc # None THEN [exc |-> h.exc, v |-> <<>>]
             ELSE IF r.exc # None THEN r
             ELSE [exc |-> None, v |-> <<h.v>> \o r.v]

\* click.style(line, underline=True, fg=<the colour of segments>)
StyleAddress(text, segments) ==
    LET styled(c) ==
            IF c.exc # None THEN Raised(c.exc)
            ELSE Returned(<<Fg8bit(c.v), Underline>> \o text \o <<Reset>>)
    IN  IF segments.exc # None THEN Raised(segments.exc)
        ELSE styled(from_int_list_8bit(segments.v))

timestamp_filter(src, text) ==
    IF src = "util" THEN Returned(<<Italic>> \o text \o <<Reset>>)
    ELSE Returned(<<BrightWhite, Bold>> \o text \o <<Reset>>)

ipv4_segments(text) == MapInt(split(text, <<".">>, -1), 10, FALSE)

ipv4_filter(src, text) == StyleAddress(text, ipv4_segments(text))

\* [0] * n: the empty list when n <= 0
RECURSIVE Zeros(_)
Zeros(n) == IF n <= 0 THEN <<>> ELSE <<0>> \o Zeros(n - 1)

\* implied_segments counted up to 7 segments
implied_segments_of_seven(before, after) == 7 - (before + after)

\* implied_segments = 8 - (len(ip_sections[0]) + len(ip_sections[1]))
implied_segments(before, after) == 8 - (before + after)

\* ip_segments of ipv6_filter: util.py parses every segment with int(.., 16),
\* _linefilters.py takes an empty segment as 0
ipv6_segments(src, text) ==
    LET lenient == (src # "util")
        joined(before, after, implied) ==
            IF before.exc # None THEN before
            ELSE IF after.exc # None THEN after
            ELSE [exc |-> None,
                  v |-> before.v \o Zeros(implied) \o after.v]
        parsed(ip_sections) ==
            IF Len(ip_sections) > 1
            THEN joined(MapInt(ip_sections[1], 16, lenient),
                        MapInt(ip_sections[2], 16, lenient),
                        implied_segments(Len(ip_sections[1]), Len(ip_sections[2])))
            ELSE MapInt(ip_sections[1], 16, lenient)
        sections(halves) ==
            parsed([k \in 1..Len(halves) |-> split(halves[k], <<":">>, -1)])
    IN  sections(split(text, <<":", ":">>, 1))

ipv6_filter(src, text) == StyleAddress(text, ipv6_segments(src, text))

\* f._pattern and f._replacer of the filter named f; broken_filter is
\* LineRegexFilter(lambda text: text, '('), a filter built on a pattern that
\* is not a regular expression
PatternOf(f) ==
    CASE f = "timestamp_filter" -> timestamp_pattern
      [] f = "ipv4_filter" -> ipv4_pattern
      [] f = "ipv6_filter" -> ipv6_pattern
      [] f = "broken_filter" -> Invalid

Replacer(src, f, text) ==
    CASE f = "timestamp_filter" -> timestamp_filter(src, text)
      [] f = "ipv4_filter" -> ipv4_filter(src, text)
      [] f = "ipv6_filter" -> ipv6_filter(src, text)
      [] f = "broken_filter" -> Returned(text)

-----------------------------------------------------------------------------
(***************************************************************************)
(* LineRegexFilter and CompositeLineRegexFilter.  A filter object is       *)
(*   [cls, subs, src]: its class, the filters it was built from (for a     *)
(* LineRegexFilter, the one name of its own pattern and replacer) and the  *)
(* module that defines them.  The filters are module level objects, so     *)
(* the name of a filter stands for its identity id(f).                     *)
(***************************************************************************)
LineRegexFilter(src, f) == [cls |-> "LineRegexFilter", subs |-> <<f>>, src |-> src]

\* key_name = f'_{hex(id(f)).removeprefix("0x")}'
key_name(f) == "_" \o f

\* CompositeLineRegexFilter.__init__: the object, with _subfilters and _pattern
CompositeLineRegexFilter(src, filters) ==
    [cls |-> "CompositeLineRegexFilter", subs |-> filters, src |-> src]

\* self._subfilters[key_name] = f for each f of filters, a filter given
\* twice leaving one entry
subfilters(self) ==
    [k \in {key_name(self.subs[j]) : j \in 1..Len(self.subs)} |->
        CHOOSE f \in {self.subs[j] : j \in 1..Len(self.subs)} : key_name(f) = k]

\* pattern, the composite keeping the pattern of its first sub-filter alone
pattern_first_only(self) ==
    IF self.cls = "LineRegexFilter" THEN PatternOf(self.subs[1])
    ELSE IF self.subs = <<>> THEN Empty
    ELSE Named(key_name(self.subs[1]), PatternOf(self.subs[1]))

\* '|'.join(f'(?P<{key_name}>{f._pattern})' for f in filters)
pattern(self) ==
    IF self.cls = "LineRegexFilter" THEN PatternOf(self.subs[1])
    ELSE IF self.subs = <<>> THEN Empty
    ELSE Alt([j \in 1..Len(self.subs) |->
                Named(key_name(self.subs[j]), PatternOf(self.subs[j]))])

\* re.compile(self._pattern) raises re.error when a group name is defined
\* twice and when a pattern is not a regular expression
compiles(self) ==
    /\ \A j, k \in 1..Len(self.subs) : self.subs[j] = self.subs[k] => j = k
    /\ \A j \in 1..Len(self.subs) : PatternOf(self.subs[j]).t # "invalid"

\* match_replace_callback handing the replacer match.string, the whole line
match_replace_callback_whole_line(self, string, m) ==
    IF self.cls = "LineRegexFilter"
    THEN [r |-> Replacer(self.src, self.subs[1], string),
          called |-> <<[f |-> self.subs[1], arg |-> string]>>]
    ELSE IF m.g = None \/ m.g \notin DOMAIN subfilters(self)
    THEN [r |-> Returned(string), called |-> <<>>]
    ELSE [r |-> Replacer(self.src, subfilters(self)[m.g], string),
          called |-> <<[f |-> subfilters(self)[m.g], arg |-> string]>>]

\* match_replace_callback, the composite delegating to its first sub-filter
\* whatever group matched
match_replace_callback_first_sub(self, string, m) ==
    LET matchstr == Slice(string, m.b, m.e)
    IN  IF self.cls = "LineRegexFilter" \/ self.subs # <<>>
        THEN [r |-> Replacer(self.src, self.subs[1], matchstr),
              called |-> <<[f |-> self.subs[1], arg |-> matchstr]>>]
        ELSE [r |-> Returned(string), called |-> <<>>]

\* _match_replace_callback, of either class: what it returns or raises, and
\* the replacer invocation it makes (none when the composite cannot tell the
\* sub-filter)
match_replace_callback(self, string, m) ==
    LET matchstr == Slice(string, m.b, m.e)
    IN  IF self.cls = "LineRegexFilter"
        THEN [r |-> Replacer(self.src, self.subs[1], matchstr),
              called |-> <<[f |-> self.subs[1], arg |-> matchstr]>>]
        ELSE IF m.g = None \/ m.g \notin DOMAIN subfilters(self)
        THEN [r |-> Returned(string), called |-> <<>>]
        ELSE [r |-> Replacer(self.src, subfilters(self)[m.g], matchstr),
              called |-> <<[f |-> subfilters(self)[m.g], arg |-> matchstr]>>]

\* Pattern.subn(callback, string) over the matches ms[j..]; i is the offset
\* up to which string has been copied
RECURSIVE subn(_, _, _, _, _)
subn(self, string, ms, j, i) ==
    IF j > Len(ms)
    THEN [exc |-> None, new_line |-> Slice(string, i, Len(string)), rcount |-> 0,
          called |-> <<>>]
    ELSE LET replaced(c) ==
                 IF c.r.exc # None
                 THEN [exc |-> c.r.exc, new_line |-> <<>>, rcount |-> 0,
                       called |-> c.called]
                 ELSE LET copied(rest) ==
                              [exc |-> rest.exc,
                               new_line |-> Slice(string, i, ms[j].b) \o c.r.text
                                            \o rest.new_line,
                               rcount |-> rest.rcount + 1,
                               called |-> c.called \o rest.called]
                      IN  copied(subn(self, string, ms, j + 1, ms[j].e))
         IN  replaced(match_replace_callback(self, string, ms[j]))

\* call without the test of rcount: the line is returned, replaced or not
call_ignoring_rcount(self, cp, string) ==
    LET returned(s) ==
            [cpattern |-> "compiled", wrote |-> (cp = None),
             exc |-> s.exc, is_none |-> FALSE,
             new_line |-> s.new_line, called |-> s.called]
    IN  returned(subn(self, string, Scan(pattern(self), string, 0, FALSE), 1, 0))

\* call taking a pattern that does not compile for one that matches nothing
call_swallowing_pattern_error(self, cp, string) ==
    LET returned(s) ==
            IF s.exc # None
            THEN [cpattern |-> "compiled", wrote |-> (cp = None),
                  exc |-> s.exc, is_none |-> FALSE,
                  new_line |-> <<>>, called |-> s.called]
            ELSE IF s.rcount <= 0
            THEN [cpattern |-> "compiled", wrote |-> (cp = None),
                  exc |-> None, is_none |-> TRUE,
                  new_line |-> <<>>, called |-> s.called]
            ELSE [cpattern |-> "compiled", wrote |-> (cp = None),
                  exc |-> None, is_none |-> FALSE,
                  new_line |-> s.new_line, called |-> s.called]
    IN  IF cp = None /\ ~compiles(self)
        THEN [cpattern |-> None, wrote |-> FALSE,
              exc |-> None, is_none |-> TRUE,
              new_line |-> <<>>, called |-> <<>>]
        ELSE returned(subn(self, string, Scan(pattern(self), string, 0, FALSE), 1, 0))

\* call compiling the pattern whether or not _cpattern is None
call_recompiling(self, cp, string) ==
    LET returned(s) ==
            IF s.exc # None
            THEN [cpattern |-> "compiled", wrote |-> TRUE,
                  exc |-> s.exc, is_none |-> FALSE,
                  new_line |-> <<>>, called |-> s.called]
            ELSE IF s.rcount <= 0
            THEN [cpattern |-> "compiled", wrote |-> TRUE,
                  exc |-> None, is_none |-> TRUE,
                  new_line |-> <<>>, called |-> s.called]
            ELSE [cpattern |-> "compiled", wrote |-> TRUE,
                  exc |-> None, is_none |-> FALSE,
                  new_line |-> s.new_line, called |-> s.called]
    IN  IF ~compiles(self)
        THEN [cpattern |-> cp, wrote |-> FALSE,
              exc |-> "re.error", is_none |-> FALSE,
              new_line |-> <<>>, called |-> <<>>]
        ELSE returned(subn(self, string, Scan(pattern(self), string, 0, FALSE), 1, 0))

\* LineRegexFilterBase.__call__(self, line) with self._cpattern = cp: the new
\* _cpattern, whether the call assigned it, the exception raised (or None), whether None was returned, the
\* line returned and the replacer invocations made; s is what subn returned
call(self, cp, string) ==
    LET returned(s) ==
            IF s.exc # None
            THEN [cpattern |-> "compiled", wrote |-> (cp = None),
                  exc |-> s.exc, is_none |-> FALSE,
                  new_line |-> <<>>, called |-> s.called]
            ELSE IF s.rcount <= 0
            THEN [cpattern |-> "compiled", wrote |-> (cp = None),
                  exc |-> None, is_none |-> TRUE,
                  new_line |-> <<>>, called |-> s.called]
            ELSE [cpattern |-> "compiled", wrote |-> (cp = None),
                  exc |-> None, is_none |-> FALSE,
                  new_line |-> s.new_line, called |-> s.called]
    IN  IF cp = None /\ ~compiles(self)
        THEN [cpattern |-> None, wrote |-> FALSE,
              exc |-> "re.error", is_none |-> FALSE,
              new_line |-> <<>>, called |-> <<>>]
        ELSE returned(subn(self, string, Scan(pattern(self), string, 0, FALSE), 1, 0))

-----------------------------------------------------------------------------
(***************************************************************************)
(* The lines the filters are applied to: every concatenation of at most    *)
(* MaxToks tokens, and the lines of the tests and of the examples.         *)
(***************************************************************************)
MaxToks == 2

Tokens ==
    {<<"1", "2", ":", "3", "4", ":", "5", "6">>,
     <<"1", ".", "2", ".", "3", ".", "4">>,
     <<"1", ":", ":", "2">>,
     <<"1">>,
     <<"a">>,
     <<" ">>,
     <<":">>}

ExampleLines ==
    {<<"1", "2", ":", "3", "4", ":", "5", "6">>,
     <<"a", "1", "2", ":", "3", "4", ":", "5", "6", "b">>,
     <<"1", "1", "2", ":", "3", "4", ":", "5", "6", "7">>,
     <<"[", "1", "2", ":", "3", "4", ":", "0", "1", "]", ":", " ", "T", "i", "m", "e", "s", "t", "a", "m", "p", "\n">>,
     <<"A", "n", " ", "I", "P", "v", "4", ":", " ", "1", "9", "2", ".", "1", "6", "8", ".", "1", ".", "5", "\n">>,
     <<"A", "n", " ", "I", "P", "v", "6", ":", " ", "f", "e", "8", "0", ":", "1", "2", ":", ":", "3", "4", ":", "1", "\n">>,
     <<"L", "i", "n", "e", " ", "1", "\n">>,
     <<"E", "v", "e", "n", "t", " ", "a", "t", " ", "1", "2", ":", "3", "4", ":", "5", "6", " ", "o", "c", "c", "u", "r", "r", "e", "d">>,
     <<"n", "o", " ", "t", "i", "m", "e", " ", "h", "e", "r", "e">>,
     <<"1", "2", ":", "3", "4", ":", "5", "6", " ", "1", "2", ":", "3", "4", ":", "5", "7">>,
     <<"1", ".", "2", ".", "3", ".", "4", " ", "1", "2", ":", "3", "4", ":", "5", "6", " ", ":", ":", "1", "\n">>,
     <<"1", "2", ":", "3", "4", ":", "5", "6", ":", ":", "1", " ", "1", "0", ".", "0", ".", "0", ".", "2", "5", "5">>,
     <<":", ":">>,
     <<":", ":", "\n">>,
     <<" ", ":", ":", " ">>,
     <<"g", ":", ":", "g">>,
     <<"x", " ", ":", ":", " ", "y", "\n">>,
     <<"2", "5", "6", ".", "1", ".", "1", ".", "1">>,
     <<"1", ".", "1", ".", "1", ".", "2", "5", "6">>,
     <<"2", "5", "5", ".", "2", "5", "5", ".", "2", "5", "5", ".", "2", "5", "5">>,
     <<"1", ".", "2", ".", "3", ".", "4", ".", "5">>,
     <<"1", ":", "2", ":", "3", ":", "4", ":", "5", ":", "6", ":", "7", ":", "8">>,
     <<"1", ":", "2", ":", "3", ":", "4", ":", "5", ":", "6", ":", ":", "7">>,
     <<"0", ":", ":", "1">>,
     <<"1", ":", ":", "2", ":", "3", ":", "4", ":", "5", ":", "6", ":", "7">>,
     <<":", ":", "2", ":", "3", ":", "4", ":", "5", ":", "6", ":", "7", ":", "8">>,
     <<"1", ":", "2", ":", "3", ":", "4", ":", "5", ":", "6", ":", "7", ":", ":">>,
     <<"1", ":", "2", ":", "3", ":", "4", ":", "5", ":", "6", ":", ":", ":", "7">>,
     <<"1", ":", ":", "2", ":", ":">>,
     <<"f", "e", "8", "0", ":", ":">>,
     <<":", ":", "1">>,
     <<"f", "e", "8", "0", ":", "1", "2", ":", ":", "3", "4", ":", "1">>}

RECURSIVE TokenLines(_)
TokenLines(n) ==
    IF n = 0 THEN {<<>>}
    ELSE LET shorter == TokenLines(n - 1)
         IN  shorter \cup {l \o tok : l \in shorter, tok \in Tokens}

Lines == TokenLines(MaxToks) \cup ExampleLines

\* the sequences of distinct filters
FilterLists ==
    {fs \in UNION {[1..n -> FilterNames] : n \in 0..Cardinality(FilterNames)} :
        \A j, k \in 1..Len(fs) : fs[j] = fs[k] => j = k}

FilterObjects ==
    {LineRegexFilter("package", f) : f \in FilterNames}
    \cup {CompositeLineRegexFilter("package", fs) : fs \in FilterLists}

-----------------------------------------------------------------------------
(***************************************************************************)
(* SpecFilter: one filter object, applied to lines one after the other.    *)
(***************************************************************************)
NotCalled == [exc |-> "NotCalled", is_none |-> FALSE, new_line |-> <<>>]

\* the parts of the state a specification does not use stay as constructed
FilterIdle ==
    /\ filt = LineRegexFilter("package", "timestamp_filter")
    /\ cpattern = None /\ line = <<>> /\ res = NotCalled /\ calls = <<>>
    /\ ncalls = 0 /\ ncompiles = 0

NoColour == [exc |-> "NotCalled", v |-> -1, n |-> 0, prev |-> -1]

ColourIdle == lst = <<>> /\ colour = NoColour /\ rgb = <<>>

CliIdle ==
    /\ args = [first |-> <<>>, last |-> <<>>, timestamps |-> FALSE,
               ipv4 |-> FALSE, ipv6 |-> FALSE]
    /\ file = <<>> /\ pc = "idle" /\ nread = 0
    /\ cli_filter = None /\ first_lines = 0 /\ filtered_lines = <<>>
    /\ last_line_buff = <<>> /\ stdout = <<>> /\ exit_code = -1

InitFilter ==
    /\ filt \in FilterObjects
    /\ cpattern = None
    /\ line = <<>>
    /\ res = NotCalled
    /\ calls = <<>>
    /\ ncalls = 0 /\ ncompiles = 0
    /\ ColourIdle
    /\ CliIdle

\* filt(l), the first call on the object
Call(l) ==
    LET returned(c) ==
            /\ line' = l
            /\ cpattern' = c.cpattern
            /\ res' = [exc |-> c.exc, is_none |-> c.is_none, new_line |-> c.new_line]
            /\ calls' = c.called
            /\ ncompiles' = ncompiles + (IF c.wrote THEN 1 ELSE 0)
    IN  /\ res = NotCalled
        /\ returned(call(filt, cpattern, l))
        /\ ncalls' = ncalls + 1
        /\ UNCHANGED <<filt, colourVars, cliVars>>

NextFilter == \E l \in Lines : Call(l)

SpecFilter == InitFilter /\ [][NextFilter]_vars

-----------------------------------------------------------------------------
(***************************************************************************)
(* SpecApply: one filter object, called MaxCalls times.  Among the objects *)
(* are a filter built on a pattern that is not a regular expression, a     *)
(* composite that holds it, and composites built from a list that names    *)
(* the same filter twice.                                                  *)
(***************************************************************************)
MaxCalls == 3

ApplyLines ==
    {<<>>,
     <<"x">>,
     <<"1", "2", ":", "3", "4", ":", "5", "6">>,
     <<"1", ".", "2", ".", "3", ".", "4", " ", "1", "2", ":", "3", "4", ":", "5", "6">>,
     <<":", ":", "1">>}

ApplyFilterLists ==
    {<<>>,
     <<"timestamp_filter", "ipv4_filter">>,
     <<"ipv6_filter", "ipv4_filter", "timestamp_filter">>,
     <<"timestamp_filter", "timestamp_filter">>,
     <<"ipv4_filter", "timestamp_filter", "ipv4_filter">>,
     <<"timestamp_filter", "broken_filter">>}

ApplyObjects ==
    {LineRegexFilter("package", f) : f \in FilterNames \cup {"broken_filter"}}
    \cup {CompositeLineRegexFilter("package", fs) : fs \in ApplyFilterLists}

\* the objects as their constructors leave them: __init__ sets _cpattern to
\* None and compiles nothing
InitApply ==
    /\ filt \in ApplyObjects
    /\ cpattern = None
    /\ line = <<>>
    /\ res = NotCalled
    /\ calls = <<>>
    /\ ncalls = 0 /\ ncompiles = 0
    /\ ColourIdle
    /\ CliIdle

\* filt(l), one more call on the object
Apply(l) ==
    LET returned(c) ==
            /\ line' = l
            /\ cpattern' = c.cpattern
            /\ res' = [exc |-> c.exc, is_none |-> c.is_none, new_line |-> c.new_line]
            /\ calls' = c.called
            /\ ncompiles' = ncompiles + (IF c.wrote THEN 1 ELSE 0)
    IN  /\ ncalls < MaxCalls
        /\ returned(call(filt, cpattern, l))
        /\ ncalls' = ncalls + 1
        /\ UNCHANGED <<filt, colourVars, cliVars>>

NextApply == \E l \in ApplyLines : Apply(l)

SpecApply == InitApply /\ [][NextApply]_vars

-----------------------------------------------------------------------------
(***************************************************************************)
(* SpecColour: the 8-bit colour derivation, called on a list of integers   *)
(* and then once more on the same list, or the 24-bit colour derivation,   *)
(* called on a list of integers.                                           *)
(***************************************************************************)
MaxInts == 3

ColourInts == {-300, -1, 0, 1, 227, 228, 255, 65535}

IntLists == UNION {[1..n -> ColourInts] : n \in 0..MaxInts}

InitColour == FilterIdle /\ ColourIdle /\ CliIdle

\* RgbConverter.from_int_list_8bit(l), the first call
Derive8(l) ==
    LET returned(c) == colour' = [exc |-> c.exc, v |-> c.v, n |-> 1, prev |-> -1]
    IN  /\ colour.n = 0 /\ rgb = <<>>
        /\ lst' = l
        /\ returned(from_int_list_8bit(l))
        /\ UNCHANGED <<rgb, filterVars, cliVars>>

\* RgbConverter.from_int_list_8bit(lst), called again on the same list
Again8 ==
    LET returned(c) ==
            colour' = [exc |-> c.exc, v |-> c.v, n |-> 2, prev |-> colour.v]
    IN  /\ colour.n = 1
        /\ returned(from_int_list_8bit(lst))
        /\ UNCHANGED <<lst, rgb, filterVars, cliVars>>

\* RgbConverter.from_int_list_24bit(l)
Derive24(l) ==
    /\ colour.n = 0 /\ rgb = <<>>
    /\ lst' = l
    /\ rgb' = from_int_list_24bit(l)
    /\ UNCHANGED <<colour, filterVars, cliVars>>

NextColour ==
    \/ \E l \in IntLists : Derive8(l)
    \/ Again8
    \/ \E l \in IntLists : Derive24(l)

SpecColour == InitColour /\ [][NextColour]_vars

-----------------------------------------------------------------------------
(***************************************************************************)
(* SpecCli: util.py, the command line tool.  click checks the options,     *)
(* main builds the filter, takes the first lines, then the last lines of   *)
(* what is left of the one iterator over FILE, and prints them.  An        *)
(* Optional[int] is <<>> for None and <<n>> for n.                         *)
(***************************************************************************)
MaxCount == 2
MaxLines == 3

Counts == {<<>>} \cup {<<n>> : n \in (0 - 1)..MaxCount}

CliArgs ==
    [first : Counts, last : Counts, timestamps : BOOLEAN, ipv4 : BOOLEAN,
     ipv6 : BOOLEAN]

\* a line with an IPv6 address, one with a timestamp and an IPv4 address, and
\* one with an IPv6 address that starts with "::"
CliLines ==
    {<<"1", ":", ":", "2", "\n">>,
     <<"1", "2", ":", "3", "4", ":", "5", "6", " ", "1", ".", "2", ".", "3", ".", "4", "\n">>,
     <<":", ":", "1", "\n">>}

Files == UNION {[1..n -> CliLines] : n \in 0..MaxLines}

InitCli ==
    /\ FilterIdle /\ ColourIdle
    /\ args \in CliArgs
    /\ file \in Files
    /\ pc = "click"
    /\ nread = 0
    /\ cli_filter = None
    /\ first_lines = 0
    /\ filtered_lines = <<>>
    /\ last_line_buff = <<>>
    /\ stdout = <<>>
    /\ exit_code = -1

\* click.IntRange(min=0), the minimum itself accepted
IntRangeAccepts_closed(count) == IF count = <<>> THEN TRUE ELSE count[1] >= 0

\* click.IntRange(min=0, min_open=True) accepts a count when it is above 0
IntRangeAccepts(count) == IF count = <<>> THEN TRUE ELSE count[1] > 0

\* base_filters, in the order main appends them
base_filters(a) ==
    (IF a.timestamps THEN <<"timestamp_filter">> ELSE <<>>)
    \o (IF a.ipv4 THEN <<"ipv4_filter">> ELSE <<>>)
    \o (IF a.ipv6 THEN <<"ipv6_filter">> ELSE <<>>)

\* next(line_iter) with n lines of FILE read and the composite's _cpattern cp:
\* an item, StopIteration or the exception the filter raised.  Without
\* filters line_iter is FILE; with filters it is filtermap over FILE, which
\* reads on until the filter returns something other than None.
RECURSIVE next_line(_, _, _, _)
next_line(a, f, n, cp) ==
    LET filtered(c) ==
            IF c.exc # None
            THEN [kind |-> "raise", item |-> <<>>, nread |-> n + 1, cp |-> c.cpattern]
            ELSE IF c.is_none THEN next_line(a, f, n + 1, c.cpattern)
            ELSE [kind |-> "item", item |-> c.new_line, nread |-> n + 1,
                  cp |-> c.cpattern]
    IN  IF n >= Len(f)
        THEN [kind |-> "stop", item |-> <<>>, nread |-> n, cp |-> cp]
        ELSE IF base_filters(a) = <<>>
        THEN [kind |-> "item", item |-> f[n + 1], nread |-> n + 1, cp |-> cp]
        ELSE filtered(call(CompositeLineRegexFilter("util", base_filters(a)), cp,
                           f[n + 1]))

\* deque(maxlen=maxlen).append(x): a full deque drops its oldest element
deque_append_unbounded(buff, x, maxlen) == Append(buff, x)
deque_append(buff, x, maxlen) ==
    IF Len(buff) >= maxlen THEN Append(Tail(buff), x) ELSE Append(buff, x)

\* s.rstrip('\n')
RECURSIVE rstrip(_)
rstrip(s) ==
    IF s # <<>> /\ s[Len(s)] = "\n" THEN rstrip(SubSeq(s, 1, Len(s) - 1)) ELSE s

\* click.echo(line.rstrip('\n')): the text written, with the newline of echo
echo(l) == rstrip(l) \o <<"\n">>

\* where main goes after the loop of --first
AfterFirst == IF args.last # <<>> /\ args.last[1] > 0 THEN "last" ELSE "echo"

\* click rejects a count that is not above 0: a usage error, exit code 2
UsageError ==
    /\ pc = "click"
    /\ ~(IntRangeAccepts(args.first) /\ IntRangeAccepts(args.last))
    /\ pc' = "exited"
    /\ exit_code' = 2
    /\ UNCHANGED <<args, file, nread, cli_filter, first_lines, filtered_lines,
                   last_line_buff, stdout, filterVars, colourVars>>

\* main is entered and returns at once: neither --first nor --last is given
MainReturns ==
    /\ pc = "click"
    /\ IntRangeAccepts(args.first) /\ IntRangeAccepts(args.last)
    /\ args.first = <<>> /\ args.last = <<>>
    /\ pc' = "exited"
    /\ exit_code' = 0
    /\ UNCHANGED <<args, file, nread, cli_filter, first_lines, filtered_lines,
                   last_line_buff, stdout, filterVars, colourVars>>

\* main is entered and builds line_iter
MainStarts ==
    /\ pc = "click"
    /\ IntRangeAccepts(args.first) /\ IntRangeAccepts(args.last)
    /\ ~(args.first = <<>> /\ args.last = <<>>)
    /\ pc' = IF args.first # <<>> /\ args.first[1] > 0 THEN "first" ELSE AfterFirst
    /\ UNCHANGED <<args, file, nread, cli_filter, first_lines, filtered_lines,
                   last_line_buff, stdout, exit_code, filterVars, colourVars>>

\* one turn of "for line in line_iter" of --first
FirstStep ==
    LET turn(it) ==
            /\ nread' = it.nread
            /\ cli_filter' = it.cp
            /\ IF it.kind = "item"
               THEN /\ filtered_lines' = Append(filtered_lines, it.item)
                    /\ first_lines' = first_lines + 1
                    /\ pc' = IF first_lines + 1 >= args.first[1] THEN AfterFirst
                             ELSE "first"
                    /\ UNCHANGED exit_code
               ELSE IF it.kind = "stop"
               THEN /\ pc' = AfterFirst
                    /\ UNCHANGED <<filtered_lines, first_lines, exit_code>>
               ELSE /\ pc' = "exited"
                    /\ exit_code' = 1
                    /\ UNCHANGED <<filtered_lines, first_lines>>
    IN  /\ pc = "first"
        /\ turn(next_line(args, file, nread, cli_filter))
        /\ UNCHANGED <<args, file, last_line_buff, stdout, filterVars, colourVars>>

\* one turn of "for line in line_iter" of --last; at the end of line_iter the
\* deque is appended to filtered_lines
LastStep ==
    LET turn(it) ==
            /\ nread' = it.nread
            /\ cli_filter' = it.cp
            /\ IF it.kind = "item"
               THEN /\ last_line_buff' = deque_append(last_line_buff, it.item,
                                                     args.last[1])
                    /\ UNCHANGED <<filtered_lines, pc, exit_code>>
               ELSE IF it.kind = "stop"
               THEN /\ filtered_lines' = filtered_lines \o last_line_buff
                    /\ pc' = "echo"
                    /\ UNCHANGED <<last_line_buff, exit_code>>
               ELSE /\ pc' = "exited"
                    /\ exit_code' = 1
                    /\ UNCHANGED <<filtered_lines, last_line_buff>>
    IN  /\ pc = "last"
        /\ turn(next_line(args, file, nread, cli_filter))
        /\ UNCHANGED <<args, file, first_lines, stdout, filterVars, colourVars>>

\* one turn of "for line in filtered_lines": click.echo(line.rstrip('\n'))
Echo ==
    /\ pc = "echo"
    /\ Len(stdout) < Len(filtered_lines)
    /\ stdout' = Append(stdout, echo(filtered_lines[Len(stdout) + 1]))
    /\ UNCHANGED <<args, file, pc, nread, cli_filter, first_lines, filtered_lines,
                   last_line_buff, exit_code, filterVars, colourVars>>

\* main returns after the last line is printed
MainEnds ==
    /\ pc = "echo"
    /\ Len(stdout) = Len(filtered_lines)
    /\ pc' = "exited"
    /\ exit_code' = 0
    /\ UNCHANGED <<args, file, nread, cli_filter, first_lines, filtered_lines,
                   last_line_buff, stdout, filterVars, colourVars>>

NextCli ==
    \/ UsageError
    \/ MainReturns
    \/ MainStarts
    \/ FirstStep
    \/ LastStep
    \/ Echo
    \/ MainEnds

SpecCli == InitCli /\ [][NextCli]_vars

Spec == SpecCli

-----------------------------------------------------------------------------
(***************************************************************************)
(* What the claims about the filters speak of.                             *)
(***************************************************************************)
Called == res.exc # "NotCalled"

\* the pattern r matches somewhere in s
HasMatch(r, s) == \E b \in 0..Len(s) : Match(r, s, b, FALSE).e >= 0

\* ms are the non-overlapping occurrences of r in s, scanned left to right:
\* each is a match of r where it starts, starts no earlier than the one before
\* it ends, and r matches at no offset that the scan passes without a match
IsScanOf(r, s, ms) ==
    /\ \A j \in 1..Len(ms) :
         /\ ms[j].b < ms[j].e
         /\ Match(r, s, ms[j].b, FALSE).e = ms[j].e
         /\ \A b \in (IF j = 1 THEN 0 ELSE ms[j - 1].e)..(ms[j].b - 1) :
              Match(r, s, b, FALSE).e < 0
    /\ \A b \in (IF ms = <<>> THEN 0 ELSE ms[Len(ms)].e)..Len(s) :
         Match(r, s, b, FALSE).e < 0

\* s with each span of reps (in order, disjoint) replaced by its text and
\* everything else kept, from offset i on
RECURSIVE Splice(_, _, _)
Splice(s, reps, i) ==
    IF reps = <<>> THEN Slice(s, i, Len(s))
    ELSE Slice(s, i, Head(reps).b) \o Head(reps).text
         \o Splice(s, Tail(reps), Head(reps).e)

\* the occurrences of the pattern of the filter f in s, each with f and with
\* the text f's replacement function gives for it
Occurrences(f, s) ==
    LET ms == Scan(PatternOf(f), s, 0, FALSE)
    IN  {[b |-> ms[j].b, e |-> ms[j].e, f |-> f,
          text |-> Replacer("package", f, Slice(s, ms[j].b, ms[j].e)).text] :
            j \in 1..Len(ms)}

RECURSIVE ByStart(_)
ByStart(S) ==
    IF S = {} THEN <<>>
    ELSE LET m == CHOOSE x \in S : \A y \in S : x.b <= y.b
         IN  <<m>> \o ByStart(S \ {m})

Invocations(reps, s) ==
    [j \in 1..Len(reps) |-> [f |-> reps[j].f, arg |-> Slice(s, reps[j].b, reps[j].e)]]

IsLineFilter == filt.cls = "LineRegexFilter"
IsComposite == filt.cls = "CompositeLineRegexFilter"
SubSet == {filt.subs[j] : j \in 1..Len(filt.subs)}

\* C1: when the pattern of a LineRegexFilter matches in the line, the call
\* returns a line (not None): the line with every non-overlapping occurrence,
\* scanned left to right, replaced by what the replacement function returns
\* for it, the function being called once per occurrence, in order, on the
\* matched text alone, and the text outside the occurrences kept.
C1_ReplacesEveryOccurrence ==
    (Called /\ IsLineFilter /\ HasMatch(PatternOf(filt.subs[1]), line)) =>
        LET f == filt.subs[1]
            ms == Scan(PatternOf(f), line, 0, FALSE)
            reps == ByStart(Occurrences(f, line))
        IN  /\ ms # <<>>
            /\ IsScanOf(PatternOf(f), line, ms)
            /\ Len(reps) = Len(ms)
            /\ res.exc = None
            /\ ~res.is_none
            /\ calls = Invocations(reps, line)
            /\ res.new_line = Splice(line, reps, 0)

C1_Witness ==
    /\ Called /\ IsLineFilter /\ ~res.is_none
    /\ Len(calls) >= 2
    /\ calls[1].arg # line

\* C2: when the pattern of a filter (of either class) matches nowhere in the
\* line, the call returns None normally, without raising, and no replacement
\* function is called.
C2_NoMatchIsNone ==
    (Called /\ ~HasMatch(pattern(filt), line)) =>
        /\ res.exc = None
        /\ res.is_none
        /\ calls = <<>>

C2_Witness ==
    /\ Called /\ IsComposite /\ Len(filt.subs) >= 2
    /\ Len(line) >= 3 /\ res.is_none /\ calls = <<>>

\* the sub-filters whose key is the group the match m closed last
Owners(m) == {j \in 1..Len(filt.subs) : key_name(filt.subs[j]) = m.g}

\* the first sub-filter, in the order of the list, whose pattern matches at b
FirstMatching(s, b) ==
    LET js == {j \in 1..Len(filt.subs) :
                 Match(PatternOf(filt.subs[j]), s, b, FALSE).e >= 0}
    IN  CHOOSE j \in js : \A k \in js : j <= k

\* every match of the composite is a match of exactly one tagged group, whose
\* sub-filter's own pattern matches the matched text (where it stands in the
\* line, and alone), and that sub-filter's function replaces it
DispatchesToOwner ==
    LET ms == Scan(pattern(filt), line, 0, FALSE)
        owner(m) == filt.subs[CHOOSE j \in Owners(m) : TRUE]
        reps == [j \in 1..Len(ms) |->
                    [b |-> ms[j].b, e |-> ms[j].e, f |-> owner(ms[j]),
                     text |-> Replacer("package", owner(ms[j]),
                                       Slice(line, ms[j].b, ms[j].e)).text]]
    IN  /\ \A j \in 1..Len(ms) :
             /\ Cardinality(Owners(ms[j])) = 1
             /\ Owners(ms[j]) = {FirstMatching(line, ms[j].b)}
             /\ Match(PatternOf(owner(ms[j])), line, ms[j].b, FALSE).e = ms[j].e
             /\ LET text == Slice(line, ms[j].b, ms[j].e)
                IN  Match(PatternOf(owner(ms[j])), text, 0, FALSE).e = Len(text)
        /\ (\A j \in 1..Len(ms) : Cardinality(Owners(ms[j])) = 1) =>
             /\ res.exc = None
             /\ calls = Invocations(reps, line)
             /\ ms # <<>> => (~res.is_none /\ res.new_line = Splice(line, reps, 0))

\* C3 as stated: for every match of a composite built from a list of distinct
\* filters, exactly one tagged group names the owning sub-filter, whose own
\* pattern matches the matched text and whose function replaces it.
C3_Original == (Called /\ IsComposite) => DispatchesToOwner

\* C3, amended: the same, for a composite built from a non-empty list of
\* distinct filters.
C3_DispatchesToOwner ==
    (Called /\ IsComposite /\ filt.subs # <<>>) => DispatchesToOwner

C3_Witness ==
    /\ Called /\ IsComposite /\ Len(filt.subs) = 3
    /\ \E j, k \in 1..Len(calls) : calls[j].f # calls[k].f
    /\ \E j \in 1..Len(calls) : calls[j].f # filt.subs[1]

\* no two sub-filters match overlapping spans of the line
NoOverlap ==
    \A f \in SubSet, h \in SubSet :
        f # h =>
            \A m \in Occurrences(f, line) :
                \A n \in Occurrences(h, line) : m.e <= n.b \/ n.e <= m.b

\* the composite replaces what its sub-filters, each applied alone to the
\* line, replace, with the same texts, and reports a match exactly when one
\* of them does
SinglePassEquivalent ==
    LET reps == ByStart(UNION {Occurrences(f, line) : f \in SubSet})
    IN  /\ res.exc = None
        /\ res.is_none <=> (reps = <<>>)
        /\ calls = Invocations(reps, line)
        /\ reps # <<>> => res.new_line = Splice(line, reps, 0)

\* C4 as stated: for any set of sub-filters no two of which match overlapping
\* spans of the line, the composite is equivalent to the union of the
\* sub-filters applied independently.
C4_Original == (Called /\ IsComposite /\ NoOverlap) => SinglePassEquivalent

\* C4, amended: the same, for a non-empty set of sub-filters.
C4_SinglePassEquivalence ==
    (Called /\ IsComposite /\ filt.subs # <<>> /\ NoOverlap) => SinglePassEquivalent

C4_Witness ==
    /\ Called /\ IsComposite /\ Len(filt.subs) >= 2 /\ NoOverlap
    /\ \E j, k \in 1..Len(calls) : calls[j].f # calls[k].f

\* the only colons of s are one "::", which no hexadecimal digit touches
BareColonColon(s) ==
    \E i \in 1..(Len(s) - 1) :
        /\ s[i] = ":" /\ s[i + 1] = ":"
        /\ \A k \in 1..Len(s) : s[k] = ":" => k \in {i, i + 1}
        /\ i = 1 \/ s[i - 1] \notin HexDigit
        /\ i + 1 = Len(s) \/ s[i + 2] \notin HexDigit

\* C9: the IPv6 filter reports no match for a line whose only colons are a
\* bare "::", alone or between characters that are not hexadecimal digits.
C9_BareColonColonNoMatch ==
    (Called /\ filt = LineRegexFilter("package", "ipv6_filter")
       /\ BareColonColon(line)) =>
        /\ res.exc = None /\ res.is_none /\ calls = <<>>
        /\ ~HasMatch(ipv6_pattern, line)

C9_Witness ==
    /\ Called /\ filt = LineRegexFilter("package", "ipv6_filter")
    /\ BareColonColon(line) /\ Len(line) >= 4 /\ res.is_none

\* s[b:e] is three groups of two digits separated by colons, with no digit
\* right before it and none right after it
IsTimestampSpan(s, b, e) ==
    /\ e = b + 8 /\ e <= Len(s)
    /\ \A k \in 1..8 : IF k \in {3, 6} THEN s[b + k] = ":" ELSE s[b + k] \in Digit
    /\ b = 0 \/ s[b] \notin Digit
    /\ e = Len(s) \/ s[e + 1] \notin Digit

\* C10: the timestamp pattern matches a span exactly when the span is three
\* two-digit groups separated by colons, not preceded and not followed by a
\* digit; the filter restyles such spans and reports no match when there is
\* none ("12:34:56" is restyled in full, "112:34:567" is not matched).
C10_TimestampSpans ==
    (Called /\ filt = LineRegexFilter("package", "timestamp_filter")) =>
        /\ \A b \in 0..Len(line), e \in 0..Len(line) :
             (Match(timestamp_pattern, line, b, FALSE).e = e)
                <=> IsTimestampSpan(line, b, e)
        /\ res.is_none <=>
             ~\E b \in 0..Len(line), e \in 0..Len(line) : IsTimestampSpan(line, b, e)
        /\ \A j \in 1..Len(calls) :
             \E b \in 0..Len(line) :
                /\ IsTimestampSpan(line, b, b + 8)
                /\ calls[j].arg = Slice(line, b, b + 8)
        /\ line = <<"1", "2", ":", "3", "4", ":", "5", "6">> =>
             res.new_line = <<BrightWhite, Bold>> \o line \o <<Reset>>
        /\ line = <<"1", "1", "2", ":", "3", "4", ":", "5", "6", "7">> => res.is_none

C10_Witness ==
    /\ Called /\ filt = LineRegexFilter("package", "timestamp_filter")
    /\ line = <<"a", "1", "2", ":", "3", "4", ":", "5", "6", "b">>
    /\ ~res.is_none
    /\ calls = <<[f |-> "timestamp_filter", arg |-> <<"1", "2", ":", "3", "4", ":", "5", "6">>]>>

-----------------------------------------------------------------------------
(***************************************************************************)
(* The claim about the colour derivation.                                  *)
(***************************************************************************)
ExcludedIndices == {0, 7, 15} \cup (231..255)

\* the values the loop of from_int_list_8bit gives rgb_out, one per element
FoldIndices(l) == {Fold8(0, SubSeq(l, 1, k)) : k \in 0..Len(l)}

\* C8: for every integer list, the empty one too, the 8-bit derivation returns
\* an entry of the reduced palette, a value of 0..255 that is none of 0, 7, 15,
\* 231..255; the index it folds the list into stays within the palette; and a
\* second call on the same list returns what the first returned.
C8_PaletteEntry ==
    colour.n > 0 =>
        /\ colour.exc = None
        /\ colour.v \in 0..255
        /\ colour.v \notin ExcludedIndices
        /\ \E k \in 1..Len(value_table_8bit) : value_table_8bit[k] = colour.v
        /\ \A i \in FoldIndices(lst) : i >= 0 /\ i < Len(value_table_8bit)
        /\ \A k \in 1..Len(value_table_8bit) :
             value_table_8bit[k] \in (0..255) \ ExcludedIndices
        /\ colour.n = 2 => colour.v = colour.prev

C8_Witness ==
    /\ colour.n = 2 /\ Len(lst) = 3 /\ lst[1] = 65535 /\ lst[2] = -300
    /\ colour.exc = None /\ colour.prev = colour.v

-----------------------------------------------------------------------------
(***************************************************************************)
(* What the claims about the command line tool speak of.                   *)
(***************************************************************************)
Accepted == IntRangeAccepts(args.first) /\ IntRangeAccepts(args.last)

FilterActive == base_filters(args) # <<>>

\* what the active filters make of the line l
Filtered(a, l) == call(CompositeLineRegexFilter("util", base_filters(a)), None, l)

\* one pass over the lines f[k..] with the active filters: the filter results
\* of the lines that matched, in input order, and whether a replacement
\* function raised on a line
RECURSIVE Pass(_, _, _, _)
Pass(a, f, k, acc) ==
    IF k > Len(f) THEN acc
    ELSE LET c == Filtered(a, f[k])
         IN  Pass(a, f, k + 1,
                  IF c.exc # None THEN [acc EXCEPT !.raised = TRUE]
                  ELSE IF c.is_none THEN acc
                  ELSE [acc EXCEPT !.lines = Append(@, c.new_line)])

\* the surviving lines of f and whether a replacement function raised:
\* without filters the lines themselves survive
Survival(a, f) ==
    IF base_filters(a) = <<>> THEN [lines |-> f, raised |-> FALSE]
    ELSE Pass(a, f, 1, [lines |-> <<>>, raised |-> FALSE])

Survivors(a, f) == Survival(a, f).lines

Min(x, y) == IF x <= y THEN x ELSE y

\* lines 1..min(F, n) of the n surviving lines, then the final
\* min(L, n - min(F, n)) of them; a count that is not given takes nothing
Window(surv, first, last) ==
    LET n == Len(surv)
        nf == IF first = <<>> THEN 0 ELSE Min(first[1], n)
        nl == IF last = <<>> THEN 0 ELSE Min(last[1], n - nf)
    IN  SubSeq(surv, 1, nf) \o SubSeq(surv, n - nl + 1, n)

\* the lines as click.echo writes them
Echoed(ls) == [k \in 1..Len(ls) |-> echo(ls[k])]

\* what reaches the output of the surviving lines: the window when a count is
\* given, all of them when none is
Passed(surv, first, last) ==
    IF first = <<>> /\ last = <<>> THEN surv ELSE Window(surv, first, last)

\* C5 as stated: with at least one filter active, the lines that reach the
\* output are the filter results of the input lines that matched, in input
\* order, none lost before the window of --first / --last is taken, and no
\* line without a match among them.
C5_Original ==
    (pc = "exited" /\ Accepted /\ FilterActive) =>
        stdout = Echoed(Passed(Survivors(args, file), args.first, args.last))

\* C6: with --first F and/or --last L given (each above 0) and n surviving
\* lines, the output is lines 1..min(F, n) followed by the final
\* min(L, n - min(F, n)) of the lines not taken by --first, in input order
\* and no line twice, also when F + L exceeds n.
C6_FirstLastWindow ==
    (pc = "exited" /\ Accepted /\ (args.first # <<>> \/ args.last # <<>>)) =>
        LET surv == Survival(args, file)
        IN  ~surv.raised =>
                /\ exit_code = 0
                /\ stdout = Echoed(Window(surv.lines, args.first, args.last))
                /\ Len(stdout) <= Len(surv.lines)

C6_Witness ==
    /\ pc = "exited" /\ exit_code = 0
    /\ args.first = <<2>> /\ args.last = <<2>> /\ ~FilterActive
    /\ Len(file) = 3 /\ file[1] # file[2] /\ file[2] # file[3] /\ file[1] # file[3]
    /\ stdout = Echoed(file)

\* C7 as stated: with a filter flag enabled and neither --first nor --last
\* given, every input line with a match is written to the output, the matched
\* spans styled, and every line without a match is dropped.
C7_Original ==
    (pc = "exited" /\ FilterActive /\ args.first = <<>> /\ args.last = <<>>) =>
        stdout = Echoed(Survivors(args, file))

-----------------------------------------------------------------------------
(***************************************************************************)
(* What the claims about the IPv4 and IPv6 filters speak of.               *)
(***************************************************************************)
\* t is one to three decimal digits with a value of 0..255
IsOctetText(t) ==
    /\ Len(t) \in 1..3
    /\ \A k \in 1..Len(t) : t[k] \in Digit
    /\ IntValue(t, 10) \in 0..255

\* s[b:e] is four such octets separated by dots, with no digit right before
\* it and none right after it
IsIPv4Span(s, b, e) ==
    /\ b >= 0 /\ e <= Len(s)
    /\ \E d1 \in (b + 2)..(b + 4) :
         \E d2 \in (d1 + 2)..(d1 + 4) :
            \E d3 \in (d2 + 2)..(d2 + 4) :
                /\ d3 < e
                /\ s[d1] = "." /\ s[d2] = "." /\ s[d3] = "."
                /\ IsOctetText(SubSeq(s, b + 1, d1 - 1))
                /\ IsOctetText(SubSeq(s, d1 + 1, d2 - 1))
                /\ IsOctetText(SubSeq(s, d2 + 1, d3 - 1))
                /\ IsOctetText(SubSeq(s, d3 + 1, e))
    /\ b = 0 \/ s[b] \notin Digit
    /\ e = Len(s) \/ s[e + 1] \notin Digit

\* the replacer invocations of the last call that went to the filter f
CallsOf(f) == {j \in 1..Len(calls) : calls[j].f = f}

\* C11: every span the IPv4 pattern matches is four dot-separated decimal
\* octets of 0..255 with no digit next to it; the text handed to the IPv4
\* replacement is such a span, its parse does not fail and gives the colour
\* derivation four values of 0..255; "256.1.1.1" and "1.1.1.256" are not
\* matched at all.
C11_IPv4Spans ==
    Called =>
        /\ \A b \in 0..Len(line) :
             LET e == Match(ipv4_pattern, line, b, FALSE).e
             IN  e >= 0 => IsIPv4Span(line, b, e)
        /\ \A j \in CallsOf("ipv4_filter") :
             /\ \E b \in 0..Len(line) :
                  LET e == b + Len(calls[j].arg)
                  IN  /\ e <= Len(line)
                      /\ Slice(line, b, e) = calls[j].arg
                      /\ IsIPv4Span(line, b, e)
             /\ LET segs == ipv4_segments(calls[j].arg)
                IN  /\ segs.exc = None
                    /\ Len(segs.v) = 4
                    /\ \A k \in 1..Len(segs.v) : segs.v[k] \in 0..255
                    /\ from_int_list_8bit(segs.v).exc = None
        /\ (filt.src = "package" /\ CallsOf("ipv4_filter") # {}) => res.exc = None
        /\ (line \in {<<"2", "5", "6", ".", "1", ".", "1", ".", "1">>,
                      <<"1", ".", "1", ".", "1", ".", "2", "5", "6">>}
             /\ "ipv4_filter" \in SubSet) =>
                CallsOf("ipv4_filter") = {} /\ ~HasMatch(ipv4_pattern, line)

C11_Witness ==
    /\ Called /\ filt = LineRegexFilter("package", "ipv4_filter")
    /\ line = <<"2", "5", "5", ".", "2", "5", "5", ".", "2", "5", "5", ".", "2", "5", "5">>
    /\ ~res.is_none
    /\ calls = <<[f |-> "ipv4_filter", arg |-> line]>>

\* g is a hextet: one to four hexadecimal digits
IsHextet(g) == Len(g) \in 1..4 /\ \A k \in 1..Len(g) : g[k] \in HexDigit

\* the colon-separated groups of t, none for the empty text
Groups(t) == IF t = <<>> THEN <<>> ELSE split(t, <<":">>, -1)

\* s is an address of 8 hextets separated by single colons
IsFullAddress(s) ==
    LET gs == Groups(s)
    IN  Len(gs) = 8 /\ \A k \in 1..Len(gs) : IsHextet(gs[k])

\* s is an address with a single "::", at most 7 hextets around it, and not
\* the bare "::"
IsCompressedAddress(s) ==
    LET k == Find(s, <<":", ":">>, 0)
    IN  /\ k >= 0
        /\ LET before == Groups(Slice(s, 0, k))
               after == Groups(Slice(s, k + 2, Len(s)))
           IN  /\ \A j \in 1..Len(before) : IsHextet(before[j])
               /\ \A j \in 1..Len(after) : IsHextet(after[j])
               /\ Len(before) + Len(after) \in 1..7

\* C12 as stated: the IPv6 filter matches, in its entirety, every address that
\* stands alone on the line and is 8 full hextets or has a single "::" with at
\* most 7 hextets around it (the bare "::" apart): the replacement function is
\* called once, on the whole line.
C12_Original ==
    (Called /\ filt = LineRegexFilter("package", "ipv6_filter")
       /\ (IsFullAddress(line) \/ IsCompressedAddress(line))) =>
        /\ Match(ipv6_pattern, line, 0, FALSE).e = Len(line)
        /\ ~res.is_none
        /\ calls = <<[f |-> "ipv6_filter", arg |-> line]>>


-----------------------------------------------------------------------------
(***************************************************************************)
(* What the claims about construction and compilation speak of.            *)
(***************************************************************************)
\* filt is, or holds, the filter built on a pattern that is not a regular
\* expression
HoldsBroken == \E j \in 1..Len(filt.subs) : filt.subs[j] = "broken_filter"

\* C13: a LineRegexFilter built on an invalid pattern is constructed without
\* an error and with nothing compiled; its first call raises the pattern
\* error, and so does every later call: none returns a line or None, none
\* calls a replacement function, and _cpattern stays None.
C13_StaysFailed ==
    HoldsBroken =>
        /\ ncalls = 0 => (res = NotCalled /\ cpattern = None)
        /\ ncalls >= 1 =>
             /\ res.exc = "re.error"
             /\ ~res.is_none /\ res.new_line = <<>>
             /\ calls = <<>>
             /\ cpattern = None

C13_Witness ==
    /\ filt = LineRegexFilter("package", "broken_filter")
    /\ ncalls >= 2
    /\ line = <<"1", "2", ":", "3", "4", ":", "5", "6">>
    /\ res.exc = "re.error" /\ cpattern = None


-----------------------------------------------------------------------------
(***************************************************************************)
(* The claim about the counts of the command line.                         *)
(***************************************************************************)
\* --first or --last is given with a count of zero or less
ZeroOrNegativeCount ==
    \/ args.first # <<>> /\ args.first[1] <= 0
    \/ args.last # <<>> /\ args.last[1] <= 0

\* C14: with a first or last count of zero or less the run ends as a usage
\* error, with exit code 2: main is never entered, no line of FILE is read
\* and nothing is printed.
C14_UsageError ==
    ZeroOrNegativeCount =>
        /\ pc \in {"click", "exited"}
        /\ nread = 0
        /\ stdout = <<>> /\ filtered_lines = <<>> /\ last_line_buff = <<>>
        /\ pc = "exited" => exit_code = 2

C14_Witness ==
    /\ pc = "exited" /\ exit_code = 2
    /\ args.first = <<0>> /\ args.last = <<2>>
    /\ Len(file) >= 2 /\ nread = 0 /\ stdout = <<>>


-----------------------------------------------------------------------------
(***************************************************************************)
(* The claims about the order of the integers and the 24-bit derivation.   *)
(***************************************************************************)
\* the lists that hold the elements of l in another order
Reorderings(l) ==
    {[k \in 1..Len(l) |-> l[p[k]]] : p \in Permutations(1..Len(l))}

\* C15 as stated: the 8-bit derivation depends on the order of the elements of
\* its argument: among the lists it can be called on there are two with the
\* same elements in different orders that it gives different palette entries.
C15_Original ==
    colour.n > 0 =>
        \E l \in IntLists :
            \E m \in Reorderings(l) :
                from_int_list_8bit(m).v # from_int_list_8bit(l).v


\* C16 as stated: for every list of non-negative integers, each of the three
\* channels the 24-bit derivation returns is at least 70 and below 255, also
\* when the length of the list is not a multiple of 3.
C16_Original ==
    (rgb # <<>> /\ \A k \in 1..Len(lst) : lst[k] >= 0) =>
        \A c \in 1..3 : rgb[c] >= 70 /\ rgb[c] < 255


-----------------------------------------------------------------------------
(***************************************************************************)
(* The claim about a match of a composite that no sub-filter owns.         *)
(***************************************************************************)
\* C17 as stated: when a match of a composite belongs to no sub-filter (the
\* last group is None or not a key of _subfilters, as in a composite built
\* from no filter), the match is replaced by the matched text itself: the
\* line returned has the input's text at that span, the other matches are
\* replaced by their sub-filters, and nothing else is inserted.
C17_Original ==
    (Called /\ IsComposite) =>
        LET ms == Scan(pattern(filt), line, 0, FALSE)
            kept(m) == Slice(line, m.b, m.e)
            owner(m) == filt.subs[CHOOSE j \in Owners(m) : TRUE]
            reps == [j \in 1..Len(ms) |->
                        [b |-> ms[j].b, e |-> ms[j].e,
                         text |-> IF Owners(ms[j]) = {} THEN kept(ms[j])
                                  ELSE Replacer("package", owner(ms[j]),
                                                kept(ms[j])).text]]
        IN  (\E j \in 1..Len(ms) : Owners(ms[j]) = {}) =>
                /\ res.exc = None
                /\ ~res.is_none
                /\ res.new_line = Splice(line, reps, 0)


-----------------------------------------------------------------------------
(***************************************************************************)
(* The claims about the replacement function of the IPv6 filter.           *)
(***************************************************************************)
\* how many segments text has before its first "::" and after it, <<n>> when
\* it has no "::" and n segments
SegmentCounts(text) ==
    LET k == Find(text, <<":", ":">>, 0)
    IN  IF k < 0 THEN <<Len(split(text, <<":">>, -1))>>
        ELSE <<Len(split(Slice(text, 0, k), <<":">>, -1)),
               Len(split(Slice(text, k + 2, Len(text)), <<":">>, -1))>>

\* the replacement of the package's IPv6 filter gives the colour derivation
\* 8 integers of 0..65535 for text, and implies no negative number of zeros
EightSegments(text) ==
    LET n == SegmentCounts(text)
        segs == ipv6_segments("package", text)
    IN  /\ IF Len(n) = 1 THEN n[1] = 8 ELSE n[1] + n[2] <= 8
        /\ segs.exc = None
        /\ Len(segs.v) = 8
        /\ \A k \in 1..Len(segs.v) : segs.v[k] \in 0..65535
        /\ from_int_list_8bit(segs.v).exc = None

\* C18: for every text the IPv6 pattern matches, in any line and at any
\* offset, and for every text handed to the IPv6 replacement, the number of
\* zero segments implied by "::" is not negative and the segments before the
\* "::", the zeros and the segments after it are 8 integers;
\* "fe80:12::34:1" gives 0xfe80, 0x12, 0, 0, 0, 0, 0x34, 1.
C18_EightSegments ==
    (Called /\ filt.src = "package") =>
        /\ \A b \in 0..Len(line) :
             LET e == Match(ipv6_pattern, line, b, FALSE).e
             IN  e >= 0 => EightSegments(Slice(line, b, e))
        /\ \A j \in CallsOf("ipv6_filter") :
             /\ EightSegments(calls[j].arg)
             /\ calls[j].arg = <<"f", "e", "8", "0", ":", "1", "2", ":", ":", "3", "4", ":", "1">> =>
                  ipv6_segments("package", calls[j].arg).v
                      = <<65152, 18, 0, 0, 0, 0, 52, 1>>

C18_Witness ==
    /\ Called /\ filt = LineRegexFilter("package", "ipv6_filter")
    /\ line = <<":", ":", "2", ":", "3", ":", "4", ":", "5", ":", "6", ":", "7", ":", "8">>
    /\ ~res.is_none
    /\ calls = <<[f |-> "ipv6_filter", arg |-> line]>>
    /\ ipv6_segments("package", line).v = <<0, 2, 3, 4, 5, 6, 7, 8>>

\* C19 as stated: the replacement of the IPv6 filter completes without a
\* parse failure on every text the pattern matches, an address that begins or
\* ends with "::" included: a run of the tool with --ipv6, on lines that hold
\* such addresses, ends normally.
C19_Original ==
    (pc = "exited" /\ Accepted /\ args.ipv6) => exit_code = 0

\* C20 as stated: for every list of filters a composite is built from, a list
\* that names the same filter twice included, the group names of the combined
\* pattern are distinct, _subfilters has one entry per element of the list
\* and the combined pattern compiles at the first call.
C20_Original ==
    (IsComposite /\ ~HoldsBroken /\ ncalls >= 1) =>
        /\ \A j, k \in 1..Len(filt.subs) :
             j # k => key_name(filt.subs[j]) # key_name(filt.subs[k])
        /\ Cardinality(DOMAIN subfilters(filt)) = Len(filt.subs)
        /\ res.exc # "re.error"
        /\ cpattern = "compiled"


-----------------------------------------------------------------------------
(***************************************************************************)
(* The claim about the compiled pattern over a sequence of calls.          *)
(***************************************************************************)
\* filt is built on patterns that compile: no broken filter, and no filter
\* listed twice
ValidPattern ==
    /\ ~HoldsBroken
    /\ \A j, k \in 1..Len(filt.subs) : filt.subs[j] = filt.subs[k] => j = k

\* what a filter just constructed like filt returns for the line
FreshResult(l) ==
    LET fresh(c) == [exc |-> c.exc, is_none |-> c.is_none, new_line |-> c.new_line,
                     called |-> c.called]
    IN  fresh(call([cls |-> filt.cls, subs |-> filt.subs, src |-> filt.src], None, l))

\* before the first call _cpattern is None; the first call assigns it and no
\* later call does; each call returns what a fresh filter returns
CompiledOnce ==
    ValidPattern =>
        /\ ncalls = 0 => (cpattern = None /\ ncompiles = 0 /\ res = NotCalled)
        /\ ncalls >= 1 =>
             /\ cpattern = "compiled"
             /\ ncompiles = 1
             /\ LET f == FreshResult(line)
                IN  /\ res = [exc |-> f.exc, is_none |-> f.is_none,
                              new_line |-> f.new_line]
                    /\ calls = f.called

\* a call leaves the object's pattern, replacement function and sub-filters
\* as they are, and leaves a _cpattern that is set as it is
CallKeepsFilter ==
    /\ filt' = filt
    /\ cpattern # None => (cpattern' = cpattern /\ ncompiles' = ncompiles)

\* C21: over any sequence of calls on one filter whose pattern compiles,
\* _cpattern is None until the first call, is assigned exactly once, by that
\* call, and never again; no call changes the pattern, the replacement
\* function or the sub-filters; every call returns what a filter just
\* constructed with the same pattern and function returns for the line.
C21_CompiledOnce == [](CompiledOnce) /\ [][ValidPattern => CallKeepsFilter]_vars

C21_Witness ==
    /\ ValidPattern /\ IsComposite /\ Len(filt.subs) = 3
    /\ ncalls = 3 /\ ncompiles = 1 /\ cpattern = "compiled"
    /\ ~res.is_none /\ Len(calls) = 2


-----------------------------------------------------------------------------
(***************************************************************************)
(* The claim about the form of the spans the IPv6 filter matches.          *)
(***************************************************************************)
\* the offsets of t where two colons stand side by side
DoubleColons(t) == {i \in 1..(Len(t) - 1) : t[i] = ":" /\ t[i + 1] = ":"}

\* t is a well-formed address: no three colons in a row, at most one "::",
\* every group apart from the place of the "::" a hextet, and at most 8
\* hextets
IsWellFormedAddress(t) ==
    /\ \A i \in DoubleColons(t) : i + 1 \notin DoubleColons(t)
    /\ Cardinality(DoubleColons(t)) <= 1
    /\ IF DoubleColons(t) = {}
       THEN LET gs == Groups(t)
            IN  Len(gs) <= 8 /\ \A k \in 1..Len(gs) : IsHextet(gs[k])
       ELSE LET i == CHOOSE i \in DoubleColons(t) : TRUE
                before == Groups(SubSeq(t, 1, i - 1))
                after == Groups(SubSeq(t, i + 2, Len(t)))
            IN  /\ \A k \in 1..Len(before) : IsHextet(before[k])
                /\ \A k \in 1..Len(after) : IsHextet(after[k])
                /\ Len(before) + Len(after) <= 8

\* C22 as stated: every span the IPv6 filter matches, and hands to its
\* replacement function, is a well-formed address: at most one "::", never
\* three colons in a row, no empty hextet but those the "::" implies, and at
\* most 8 hextets.
C22_Original ==
    Called => \A j \in CallsOf("ipv6_filter") : IsWellFormedAddress(calls[j].arg)


=============================================================================
